---- MODULE Spec2Model ----
(***************************************************************************)
(* Model of the SCST CD-ROM device handler, src/src/dev_handlers/          *)
(* scst_cdrom.c: cdrom_attach (capacity probe with bounded UNIT ATTENTION  *)
(* retries), cdrom_detach, cdrom_parse / cdrom_get_block_shift and         *)
(* cdrom_done / cdrom_set_block_shift, over a small heap of kmalloc'ed     *)
(* objects.  cdrom_attach is modelled label by label, since it blocks in   *)
(* scsi_execute and scst_obtain_device_parameters; the other callbacks are *)
(* atomic (parse_atomic = 1, dev_done_atomic = 1).                         *)
(***************************************************************************)
EXTENDS Integers, Sequences, FiniteSets, TLC

(* ------------------------------ bounds --------------------------------- *)
\* number of cdrom_attach calls the framework makes in one behaviour
MaxAttach == 2
\* number of commands that can be in flight on the device at once
MaxCmds == 2
\* number of cdrom_detach calls the framework makes between two attach calls
MaxDetach == 2

(* ------------------------- program constants --------------------------- *)
CDROM_DEF_BLOCK_SHIFT == 11
TYPE_ROM == 5
UNIT_ATTENTION == 6
ENODEV == 19
ENOMEM == 12
SCST_CMD_STATE_DEFAULT == 500
\* scst.h is not part of the sources at hand; the values below follow the
\* handler's framework header as the specification describes it
SCST_DEV_UA_RETRIES == 3
SCST_PASSTHROUGH_RETRIES == 0

NULL == 0
Addr == 1 .. (2 * MaxAttach)
Cmds == 1 .. MaxCmds

(* --------------------------- pure helpers ------------------------------ *)
Pow2(e) == 2 ^ e

\* value of a byte taken as the top byte of a (signed, 32-bit) int
SignedTop(b) == IF b >= 128 THEN b - 256 ELSE b

\* lines 138-139: (buffer[4] << 24) | (buffer[5] << 16) | (buffer[6] << 8) |
\* buffer[7], held in an int: the four bytes occupy disjoint bit ranges, so
\* | is +, and a top byte >= 128 sets the sign bit
SectorSizeOf(b) == SignedTop(b[4]) * Pow2(24) + b[5] * Pow2(16) + b[6] * Pow2(8) + b[7]

IsPow2(s) == \E e \in 0 .. 30 : s = Pow2(e)
Log2(s) == CHOOSE e \in 0 .. 30 : s = Pow2(e)

\* the sector sizes for which the framework's block-shift helper is specified
KnownSize(s) == IsPow2(s) /\ 512 <= s /\ s <= 65536

\* The framework's block-shift helper (scst_calc_block_shift): the exponent
\* of a power-of-two sector size in [512, 65536]; for any other size its
\* result is not specified, so every value of ShiftRange is possible.
ShiftRange == {-1, 0, 12}
scst_calc_block_shift(s) == IF KnownSize(s) THEN {Log2(s)} ELSE ShiftRange

\* sense data: response code (0 = none, 112 = 0x70 fixed format) and key
ZeroSense == [code |-> 0, key |-> 0]
SenseValues == {[code |-> 112, key |-> UNIT_ATTENTION],
                [code |-> 112, key |-> 2],
                [code |-> 0, key |-> UNIT_ATTENTION]}

\* scst_analyze_sense(sense, len, SCST_SENSE_KEY_VALID, key, 0, 0)
scst_analyze_sense(sense, key) == sense.code = 112 /\ sense.key = key

\* response buffer bytes 4..7
Bytes(a, b, c, d) == (4 :> a) @@ (5 :> b) @@ (6 :> c) @@ (7 :> d)
\* responses: every power-of-two size from 512 to 65536, size 0, and sizes
\* that are odd, powers of two out of range, sums, or have the top bit set
BufValues == { Bytes(0, 0, c, 0) : c \in {0, 2, 4, 8, 16, 32, 64, 128} }
             \cup { Bytes(0, 1, 0, 0), Bytes(0, 0, 0, 1), Bytes(0, 0, 1, 0),
                    Bytes(0, 0, 10, 0), Bytes(0, 2, 0, 0), Bytes(128, 0, 0, 0),
                    Bytes(128, 0, 8, 0) }
ZeroBuf == Bytes(0, 0, 0, 0)
GarbageBuf == Bytes(0, 0, 8, 0)

\* results of scsi_execute: 0, a SCSI status (CHECK CONDITION) or a
\* host-byte transport error (DID_ERROR << 16)
FailResults == {2, 458752}

\* what one scsi_execute call can do: its result, and whether and what it
\* wrote to the sense buffer and to the data buffer
SuccessOutcomes == { [rc |-> 0, wsense |-> ws, sense |-> [code |-> 112, key |-> UNIT_ATTENTION],
                      wdata |-> TRUE, data |-> d] :
                     ws \in BOOLEAN, d \in BufValues }
                   \cup
                   { [rc |-> 0, wsense |-> ws, sense |-> [code |-> 112, key |-> UNIT_ATTENTION],
                      wdata |-> FALSE, data |-> ZeroBuf] :
                     ws \in BOOLEAN }
FailOutcomes == { [rc |-> r, wsense |-> ws, sense |-> s, wdata |-> wd, data |-> GarbageBuf] :
                  r \in FailResults, ws \in BOOLEAN,
                  s \in SenseValues, wd \in BOOLEAN }
ExecOutcomes == SuccessOutcomes \cup FailOutcomes

\* results of scst_obtain_device_parameters
SyncResults == {0, -ENODEV, -22}

\* exponents the generic completion routine can hand to the setter
ShiftInputs == {-1, 0, 9, 11, 12}

(* ------------------------------- state --------------------------------- *)
VARIABLES
  dev,           \* the device handle: has_scsi_dev, scsi_type, type
  dh_priv,       \* dev->dh_priv: NULL or the address of a cdrom_params
  heap,          \* Addr -> "unused" | "live" | "freed"
  block_shift,   \* Addr -> the block_shift field of the cdrom_params there
  double_free,   \* kfree was called on an object already freed
  bad_access,    \* a cdrom_params was read or written through NULL or freed memory
  pc,            \* "idle", a label inside cdrom_attach, or "attached"
  params, buffer, buf, sense_buffer, retries, rc, res, sector_size,
                 \* the locals of cdrom_attach (buf: bytes 4..7 of *buffer)
  log,           \* history: of each attempt, <<rc, whether the attempt itself
                 \* returned sense data classified as UNIT ATTENTION>>
  produced,      \* history: bytes 4..7 of the response of the last attempt
                 \* (zero when it transferred no data)
  calc_calls,    \* history: scst_calc_block_shift calls made by the current
                 \* cdrom_attach
  allocs,        \* history: allocation calls made by the current cdrom_attach
  sync_calls,    \* history: scst_obtain_device_parameters calls made by it
  path,          \* history: the exit the current cdrom_attach took
  attach_count,  \* cdrom_attach calls so far
  ret,           \* value the last cdrom_attach returned (1: none yet)
  cmds,          \* the commands in flight
  last_set,      \* history: <<>> or <<[arg, old]>>, the argument of the last
                 \* cdrom_set_block_shift call on this attachment and the
                 \* exponent it replaced
  detaches       \* history: cdrom_detach calls since the last cdrom_attach began

vars == <<dev, dh_priv, heap, block_shift, double_free, bad_access, pc, params,
          buffer, buf, sense_buffer, retries, rc, res, sector_size, log,
          produced, calc_calls, allocs, sync_calls, path, attach_count, ret, cmds, last_set,
          detaches>>

locals == <<params, buffer, buf, sense_buffer, retries, rc, res, sector_size>>
history == <<log, produced, calc_calls, allocs, sync_calls, path>>
memory == <<heap, block_shift, double_free>>

NoCmd == [st |-> "free", block_shift |-> 0, retries |-> -1, state |-> 0]

DevHandles == { [has_scsi_dev |-> h, scsi_type |-> t, type |-> TYPE_ROM] :
                h \in BOOLEAN, t \in {TYPE_ROM, 0} }

Init ==
  /\ dev \in DevHandles
  /\ dh_priv = NULL
  /\ heap = [a \in Addr |-> "unused"]
  /\ block_shift = [a \in Addr |-> 0]
  /\ double_free = FALSE
  /\ bad_access = FALSE
  /\ pc = "idle"
  /\ params = NULL /\ buffer = NULL /\ buf = ZeroBuf /\ sense_buffer = ZeroSense
  /\ retries = 0 /\ rc = 0 /\ res = 0 /\ sector_size = 0
  /\ log = <<>> /\ allocs = 0 /\ sync_calls = 0 /\ path = "none"
  /\ produced = ZeroBuf /\ calc_calls = 0
  /\ attach_count = 0
  /\ ret = 1
  /\ cmds = [c \in Cmds |-> NoCmd]
  /\ last_set = <<>>
  /\ detaches = 0

(* ------------------------------ the heap ------------------------------- *)
\* kmalloc / kzalloc hand out an object not handed out before
FreshAddr(h) == CHOOSE a \in Addr : h[a] = "unused" /\ \A b \in Addr : b < a => h[b] # "unused"

\* kfree(p): no-op on NULL
kfree_heap(h, p) == IF p = NULL THEN h ELSE [h EXCEPT ![p] = "freed"]
kfree_double(h, p) == p # NULL /\ h[p] = "freed"
\* the contents of a freed cdrom_params are gone: a later read through a
\* stale pointer is flagged (bad_access) and yields an arbitrary value
kfree_contents(bs, p) == IF p = NULL THEN bs ELSE [bs EXCEPT ![p] = 0]

(* ---------------------------- cdrom_attach ----------------------------- *)
InAttach == pc \notin {"idle", "attached"}

\* the type check without the comparison of the two types
TypeMismatch_NullOnly(d) == ~d.has_scsi_dev

\* lines 77-78: the handle has no SCSI device, or one of another type
TypeMismatch(d) == ~d.has_scsi_dev \/ d.scsi_type # d.type

\* lines 64-82: entry (the locals are uninitialised) and the type check
Attach_check_type ==
  /\ pc = "idle"
  /\ attach_count < MaxAttach
  /\ attach_count' = attach_count + 1
  /\ \E s \in {ZeroSense, [code |-> 112, key |-> UNIT_ATTENTION]} : sense_buffer' = s
  /\ log' = <<>> /\ allocs' = 0 /\ sync_calls' = 0
  /\ produced' = ZeroBuf /\ calc_calls' = 0
  /\ detaches' = 0
  /\ IF TypeMismatch(dev)
       THEN /\ res' = -ENODEV
            /\ path' = "type_mismatch"
            /\ pc' = "out"
       ELSE /\ res' = res
            /\ path' = "none"
            /\ pc' = "alloc_params"
  /\ UNCHANGED <<dev, dh_priv, memory, bad_access, params, buffer, buf, retries,
                 rc, sector_size, ret, cmds, last_set>>

\* lines 84-90: params = kzalloc(sizeof(*params), GFP_KERNEL)
Attach_alloc_params ==
  /\ pc = "alloc_params"
  /\ allocs' = allocs + 1
  /\ \E ok \in BOOLEAN :
       IF ok
       THEN LET a == FreshAddr(heap) IN
            /\ params' = a
            /\ heap' = [heap EXCEPT ![a] = "live"]
            /\ block_shift' = [block_shift EXCEPT ![a] = 0]
            /\ pc' = "alloc_buffer"
            /\ UNCHANGED <<res, path>>
       ELSE /\ params' = NULL
            /\ res' = -ENOMEM
            /\ path' = "alloc_params"
            /\ pc' = "out"
            /\ UNCHANGED <<heap, block_shift>>
  /\ UNCHANGED <<dev, dh_priv, double_free, bad_access, buffer, buf, sense_buffer,
                 retries, rc, sector_size, log, produced, calc_calls, sync_calls,
                 attach_count, ret, cmds, last_set, detaches>>

\* the buffer-allocation failure leaving through "out", past the kfree
AllocBufferFailLabel_Leak == "out"

\* line 97: goto out_free_params
AllocBufferFailLabel == "out_free_params"

\* lines 92-105: buffer = kmalloc(buffer_size, GFP_KERNEL) (contents
\* uninitialised), the READ CAPACITY cdb, retries = SCST_DEV_UA_RETRIES
Attach_alloc_buffer ==
  /\ pc = "alloc_buffer"
  /\ allocs' = allocs + 1
  /\ \E ok \in BOOLEAN :
       IF ok
       THEN LET a == FreshAddr(heap) IN
            /\ buffer' = a
            /\ heap' = [heap EXCEPT ![a] = "live"]
            /\ \E g \in {ZeroBuf, GarbageBuf} : buf' = g
            /\ retries' = SCST_DEV_UA_RETRIES
            /\ pc' = "execute"
            /\ UNCHANGED <<res, path>>
       ELSE /\ buffer' = NULL
            /\ res' = -ENOMEM
            /\ path' = "alloc_buffer"
            /\ pc' = AllocBufferFailLabel
            /\ UNCHANGED <<heap, buf, retries>>
  /\ UNCHANGED <<dev, dh_priv, block_shift, double_free, bad_access, params,
                 sense_buffer, rc, sector_size, log, produced, calc_calls,
                 sync_calls, attach_count, ret, cmds, last_set, detaches>>

\* the loop without the memset of the sense buffer
memset_sense_Skipped(old) == old

\* lines 107-108: memset(buffer, 0, buffer_size), memset(sense_buffer, 0, ...)
memset_buffer(old) == ZeroBuf
memset_sense(old) == ZeroSense

\* the loop condition without the sense classification
ProbeEnds_AnyFailureRetries(r, sense) == r = 0

\* lines 122-125: (rc == 0) || !scst_analyze_sense(..., UNIT_ATTENTION, 0, 0)
ProbeEnds(r, sense) == r = 0 \/ ~scst_analyze_sense(sense, UNIT_ATTENTION)

\* lines 106-120: one pass of the loop up to the return of scsi_execute.
\* The guard on Len(log) only caps the history; the loop as written never
\* reaches it.
Attach_execute ==
  /\ pc = "execute"
  /\ Len(log) <= SCST_DEV_UA_RETRIES
  /\ \E o \in ExecOutcomes :
       /\ buf' = IF o.wdata THEN o.data ELSE memset_buffer(buf)
       /\ sense_buffer' = IF o.wsense THEN o.sense ELSE memset_sense(sense_buffer)
       /\ rc' = o.rc
       /\ log' = Append(log, <<o.rc, o.wsense /\ scst_analyze_sense(o.sense, UNIT_ATTENTION)>>)
       /\ produced' = IF o.wdata THEN o.data ELSE ZeroBuf
  /\ pc' = "check"
  /\ UNCHANGED <<dev, dh_priv, memory, bad_access, params, buffer, retries, res,
                 sector_size, calc_calls, allocs, sync_calls, path, attach_count, ret, cmds,
                 last_set, detaches>>

\* the loop without the decrement of the retry budget
NextRetries_Stuck(n) == n

\* line 128: --retries
NextRetries(n) == n - 1

\* the exhaustion of the retry budget leaving through "out", past both kfrees
ExhaustedLabel_Leak == "out"

\* line 133: goto out_free_buf
ExhaustedLabel == "out_free_buf"

\* lines 122-135: leave the loop, go round again, or give up
Attach_check ==
  /\ pc = "check"
  /\ IF ProbeEnds(rc, sense_buffer)
       THEN /\ pc' = "parse"
            /\ UNCHANGED <<retries, block_shift, res, path>>
       ELSE /\ retries' = NextRetries(retries)
            /\ IF retries' = 0
                 THEN /\ block_shift' = [block_shift EXCEPT ![params] = CDROM_DEF_BLOCK_SHIFT]
                      /\ res' = -ENODEV
                      /\ path' = "exhausted"
                      /\ pc' = ExhaustedLabel
                 ELSE /\ pc' = "execute"
                      /\ UNCHANGED <<block_shift, res, path>>
  /\ UNCHANGED <<dev, dh_priv, heap, double_free, bad_access, params, buffer, buf,
                 sense_buffer, rc, sector_size, log, produced, calc_calls, allocs,
                 sync_calls, attach_count, ret, cmds, last_set, detaches>>

\* the response ignored: the default whatever was probed
AttachShifts_AlwaysDefault(r, size) == {CDROM_DEF_BLOCK_SHIFT}

\* the helper consulted even for a sector size of 0
CalcConsulted_NoZeroCheck(r, size) == r = 0

\* lines 137-142: scst_calc_block_shift is called for a successful query
\* that reported a nonzero sector size
CalcConsulted(r, size) == r = 0 /\ size # 0

\* lines 137-153: the exponents the Record can get from result r and
\* parsed sector size
AttachShifts(r, size) ==
  IF CalcConsulted(r, size)
  THEN scst_calc_block_shift(size)
  ELSE {CDROM_DEF_BLOCK_SHIFT}

\* lines 137-153: the exponent from the response, or the default
Attach_parse ==
  /\ pc = "parse"
  /\ sector_size' = IF rc = 0 THEN SectorSizeOf(buf) ELSE sector_size
  /\ calc_calls' = IF CalcConsulted(rc, sector_size') THEN calc_calls + 1 ELSE calc_calls
  /\ \E e \in AttachShifts(rc, sector_size') :
       block_shift' = [block_shift EXCEPT ![params] = e]
  /\ pc' = "sync"
  /\ UNCHANGED <<dev, dh_priv, heap, double_free, bad_access, params, buffer, buf,
                 sense_buffer, retries, rc, res, log, produced, allocs, sync_calls,
                 path, attach_count, ret, cmds, last_set, detaches>>

\* lines 155-160: res = scst_obtain_device_parameters(dev)
Attach_sync ==
  /\ pc = "sync"
  /\ sync_calls' = sync_calls + 1
  /\ \E r \in SyncResults :
       /\ res' = r
       /\ path' = IF r # 0 THEN "sync_failed" ELSE "ok"
  /\ pc' = "out_free_buf"
  /\ UNCHANGED <<dev, dh_priv, memory, bad_access, params, buffer, buf,
                 sense_buffer, retries, rc, sector_size, log, produced, calc_calls,
                 allocs, attach_count, ret, cmds, last_set, detaches>>

\* lines 162-163: kfree(buffer)
Attach_out_free_buf ==
  /\ pc = "out_free_buf"
  /\ heap' = kfree_heap(heap, buffer)
  /\ double_free' = (double_free \/ kfree_double(heap, buffer))
  /\ pc' = "out_free_params"
  /\ UNCHANGED <<dev, dh_priv, block_shift, bad_access, locals, history,
                 attach_count, ret, cmds, last_set, detaches>>

\* the Record handed to the handle whatever res is
KeepsRecord_Always(r) == TRUE

\* the test of res inverted
KeepsRecord_Inverted(r) == r # 0

\* line 166: if (res == 0)
KeepsRecord(r) == r = 0

\* lines 165-169: hand the Record to the handle, or free it
Attach_out_free_params ==
  /\ pc = "out_free_params"
  /\ IF KeepsRecord(res)
       THEN /\ dh_priv' = params
            /\ UNCHANGED <<heap, block_shift, double_free>>
       ELSE /\ heap' = kfree_heap(heap, params)
            /\ block_shift' = kfree_contents(block_shift, params)
            /\ double_free' = (double_free \/ kfree_double(heap, params))
            /\ UNCHANGED dh_priv
  /\ pc' = "out"
  /\ UNCHANGED <<dev, bad_access, locals, history, attach_count, ret, cmds,
                 last_set, detaches>>

\* lines 171-173: return res; the locals go out of scope
Attach_out ==
  /\ pc = "out"
  /\ ret' = res
  /\ pc' = IF res = 0 THEN "attached" ELSE "idle"
  /\ params' = NULL /\ buffer' = NULL /\ buf' = ZeroBuf /\ sense_buffer' = ZeroSense
  /\ retries' = 0 /\ rc' = 0 /\ res' = 0 /\ sector_size' = 0
  /\ log' = <<>> /\ allocs' = 0 /\ sync_calls' = 0 /\ path' = "none"
  /\ produced' = ZeroBuf /\ calc_calls' = 0
  /\ UNCHANGED <<dev, dh_priv, memory, bad_access, attach_count, cmds, last_set,
                 detaches>>

cdrom_attach ==
  \/ Attach_check_type \/ Attach_alloc_params \/ Attach_alloc_buffer
  \/ Attach_execute \/ Attach_check \/ Attach_parse \/ Attach_sync
  \/ Attach_out_free_buf \/ Attach_out_free_params \/ Attach_out

(* ---------------------------- cdrom_detach ----------------------------- *)
NoCmdInFlight == \A c \in Cmds : cmds[c].st = "free"

\* the framework calls detach outside attach and with no command in flight
CanDetach == pc \in {"idle", "attached"} /\ NoCmdInFlight

\* detach without the reset of dh_priv
detach_dh_priv_Stale(old) == old

\* line 184: dev->dh_priv = NULL
detach_dh_priv(old) == NULL

\* lines 176-188
cdrom_detach ==
  /\ CanDetach
  /\ detaches < MaxDetach
  /\ detaches' = detaches + 1
  /\ heap' = kfree_heap(heap, dh_priv)
  /\ block_shift' = kfree_contents(block_shift, dh_priv)
  /\ double_free' = (double_free \/ kfree_double(heap, dh_priv))
  /\ dh_priv' = detach_dh_priv(dh_priv)
  /\ pc' = "idle"
  /\ last_set' = <<>>
  /\ UNCHANGED <<dev, bad_access, locals, history, attach_count,
                 ret, cmds>>

(* ----------------------- cdrom_parse, cdrom_done ----------------------- *)
\* the framework issues commands only to an attached device
CanIssue == pc = "attached"

\* a cdrom_params access through p is valid only if p points to a live object
ValidRecord(p) == p # NULL /\ heap[p] = "live"

\* the accessor answering the default instead of reading the Record
cdrom_get_block_shift_Default(p) == CDROM_DEF_BLOCK_SHIFT

\* lines 190-198: return params->block_shift
cdrom_get_block_shift(p) == block_shift[p]

\* lines 200-209: scst_cdrom_generic_parse(cmd, cdrom_get_block_shift) reads
\* the exponent through the accessor; cmd->retries; return res
cdrom_parse(c) ==
  /\ CanIssue
  /\ cmds[c].st = "free"
  /\ IF ValidRecord(dh_priv)
       THEN /\ cmds' = [cmds EXCEPT ![c] =
                          [st |-> "parsed",
                           block_shift |-> cdrom_get_block_shift(dh_priv),
                           retries |-> SCST_PASSTHROUGH_RETRIES,
                           state |-> SCST_CMD_STATE_DEFAULT]]
            /\ UNCHANGED bad_access
       ELSE /\ bad_access' = TRUE
            /\ \E v \in ShiftInputs :
                 cmds' = [cmds EXCEPT ![c] =
                           [st |-> "parsed", block_shift |-> v,
                            retries |-> SCST_PASSTHROUGH_RETRIES,
                            state |-> SCST_CMD_STATE_DEFAULT]]
  /\ UNCHANGED <<dev, dh_priv, memory, pc, locals, history, attach_count, ret,
                 last_set, detaches>>

\* the setter without the mapping of 0 to the default
NewBlockShift_Raw(v) == v

\* the setter with the two branches swapped
NewBlockShift_Swapped(v) == IF v = 0 THEN v ELSE CDROM_DEF_BLOCK_SHIFT

\* lines 211-223: the value stored in params->block_shift
NewBlockShift(v) == IF v # 0 THEN v ELSE CDROM_DEF_BLOCK_SHIFT

\* the setter losing its write
cdrom_set_block_shift_Lost(p, v) == block_shift

cdrom_set_block_shift(p, v) == [block_shift EXCEPT ![p] = NewBlockShift(v)]

\* lines 225-235: scst_block_generic_dev_done(cmd, cdrom_set_block_shift);
\* the generic routine calls the setter (call) with an exponent v, or not
cdrom_done(c, call, v) ==
  /\ cmds[c].st = "parsed"
  /\ IF call
       THEN IF ValidRecord(dh_priv)
            THEN /\ block_shift' = cdrom_set_block_shift(dh_priv, v)
                 /\ last_set' = <<[arg |-> v, old |-> block_shift[dh_priv]]>>
                 /\ UNCHANGED bad_access
            ELSE /\ bad_access' = TRUE
                 /\ UNCHANGED <<block_shift, last_set>>
       ELSE UNCHANGED <<block_shift, bad_access, last_set>>
  /\ cmds' = [cmds EXCEPT ![c] = NoCmd]
  /\ UNCHANGED <<dev, dh_priv, heap, double_free, pc, locals, history,
                 attach_count, ret, detaches>>

Parse == \E c \in Cmds : cdrom_parse(c)
DoneSet == \E c \in Cmds, v \in ShiftInputs : cdrom_done(c, TRUE, v)
DoneNoSet == \E c \in Cmds : cdrom_done(c, FALSE, 0)

(* --------------------------- specification ----------------------------- *)
Next ==
  \/ Attach_check_type
  \/ Attach_alloc_params
  \/ Attach_alloc_buffer
  \/ Attach_execute
  \/ Attach_check
  \/ Attach_parse
  \/ Attach_sync
  \/ Attach_out_free_buf
  \/ Attach_out_free_params
  \/ Attach_out
  \/ cdrom_detach
  \/ Parse
  \/ DoneSet
  \/ DoneNoSet

Spec == Init /\ [][Next]_vars

\* Every call cdrom_attach makes returns (scsi_execute has a timeout), so a
\* started attach keeps taking steps.
FairSpec == Spec /\ WF_vars(cdrom_attach /\ InAttach)

(* ------------------------------ properties ----------------------------- *)
\* cdrom_attach has reached "return res" (line 173)
Returning == pc = "out"
Attempts == Len(log)
\* attempt i returned nonzero and its sense data classified as UNIT ATTENTION
Transient(i) == log[i][1] # 0 /\ log[i][2]
AllTransient == Attempts >= 1 /\ \A i \in 1 .. Attempts : Transient(i)
\* the Record has been handed to the device handle
RecordAttached == params # NULL /\ dh_priv = params /\ heap[params] = "live"

\* C1: if every capacity-query attempt of a cdrom_attach failed with UNIT
\* ATTENTION sense, then when it returns it has made exactly
\* SCST_DEV_UA_RETRIES attempts, the Record holds the default exponent 11 and
\* attach returns 0 with the Record attached to the handle.
C1_ExhaustionSucceeds ==
  (Returning /\ AllTransient /\ path # "sync_failed")
    => /\ Attempts = SCST_DEV_UA_RETRIES
       /\ res = 0
       /\ RecordAttached
       /\ block_shift[params] = CDROM_DEF_BLOCK_SHIFT

\* C2: cdrom_attach returns nonzero only after a device-type mismatch, an
\* allocation failure or a failed scst_obtain_device_parameters; on every
\* other path it returns 0 with the Record attached.
C2_OnlyFatalCausesFail ==
  Returning =>
    IF (~dev.has_scsi_dev \/ dev.scsi_type # dev.type)
         \/ path \in {"alloc_params", "alloc_buffer"}
         \/ (sync_calls = 1 /\ path = "sync_failed")
    THEN res # 0
    ELSE res = 0 /\ RecordAttached

\* C3: if the first capacity-query attempt fails and its sense data is not
\* UNIT ATTENTION, exactly one attempt is made, the Record gets the default
\* exponent 11, and attach returns 0 with the Record attached when
\* scst_obtain_device_parameters succeeds.
C3_HardErrorNoRetry ==
  (Attempts >= 1 /\ log[1][1] # 0 /\ ~log[1][2])
    => /\ Attempts = 1
       /\ pc \in {"sync", "out_free_buf", "out_free_params"}
            => block_shift[params] = CDROM_DEF_BLOCK_SHIFT
       /\ (Returning /\ path = "ok")
            => res = 0 /\ RecordAttached /\ block_shift[dh_priv] = CDROM_DEF_BLOCK_SHIFT
       /\ (Returning /\ path # "ok") => path = "sync_failed"

C3_Witness ==
  /\ Returning /\ Attempts = 1 /\ log[1][1] # 0 /\ ~log[1][2]
  /\ res = 0 /\ dh_priv = params /\ block_shift[dh_priv] = CDROM_DEF_BLOCK_SHIFT

\* C4: when the successful capacity query reported a sector size s that is a
\* power of two in [512, 65536], the Record a successful attach hands to the
\* handle holds e with 2^e = s; an attempt that succeeds first is the only one.
C4_ProbedExponent ==
  /\ (Returning /\ res = 0 /\ rc = 0 /\ IsPow2(sector_size)
        /\ 512 <= sector_size /\ sector_size <= 65536)
       => /\ RecordAttached
          /\ block_shift[dh_priv] \in 9 .. 16
          /\ Pow2(block_shift[dh_priv]) = sector_size
  /\ (Attempts >= 1 /\ log[1][1] = 0) => Attempts = 1

C4_Witness ==
  /\ Returning /\ res = 0 /\ rc = 0 /\ Attempts = 1
  /\ sector_size = 2048 /\ block_shift[dh_priv] = 11

\* C5: cdrom_attach on a handle without a SCSI device, or with one of another
\* type, returns -ENODEV having made no allocation, no capacity query and no
\* change to the handle's private state.
C5_TypeMismatch ==
  (Returning /\ (~dev.has_scsi_dev \/ dev.scsi_type # dev.type))
    => /\ res = -ENODEV
       /\ allocs = 0
       /\ Attempts = 0
       /\ sync_calls = 0
       /\ dh_priv = NULL
       /\ params = NULL /\ buffer = NULL
       /\ \A a \in Addr : heap[a] = "unused"

C5_Witness ==
  /\ Returning /\ dev.has_scsi_dev /\ dev.scsi_type # dev.type
  /\ res = -ENODEV /\ allocs = 0

\* C6: when scst_obtain_device_parameters fails, cdrom_attach returns its
\* error with the scratch buffer and the Record both freed and dh_priv unset.
C6_SyncFailure ==
  (Returning /\ path = "sync_failed")
    => /\ res # 0 /\ res \in SyncResults
       /\ sync_calls = 1
       /\ heap[buffer] = "freed"
       /\ heap[params] = "freed"
       /\ dh_priv = NULL
       /\ ~double_free

C6_Witness ==
  /\ Returning /\ path = "sync_failed" /\ res = -22
  /\ heap[params] = "freed" /\ heap[buffer] = "freed" /\ dh_priv = NULL

\* C7: a cdrom_detach of an attached device frees the Record and leaves
\* dh_priv NULL, and dh_priv never refers to a freed Record.
C7_DetachReleases ==
  /\ [][(pc = "attached" /\ pc' = "idle")
          => (dh_priv # NULL /\ heap[dh_priv] = "live"
              /\ heap'[dh_priv] = "freed" /\ dh_priv' = NULL)]_vars
  /\ [](dh_priv # NULL => heap[dh_priv] = "live")

\* the last attach succeeded and the device has been detached since
C7_Witness ==
  /\ pc = "idle" /\ ret = 0 /\ dh_priv = NULL
  /\ \E a \in Addr : heap[a] = "freed"

\* C8: after cdrom_set_block_shift is called with exponent 0 the Record holds
\* 11, whatever it held before, and after a call with a nonzero exponent v it
\* holds v.
C8_Adjuster ==
  (pc = "attached" /\ last_set # <<>>)
    => block_shift[dh_priv] =
         (IF last_set[1].arg = 0 THEN 11 ELSE last_set[1].arg)

C8_Witness ==
  /\ pc = "attached" /\ last_set # <<>>
  /\ last_set[1].arg = 0 /\ last_set[1].old \notin {0, 11}
  /\ block_shift[dh_priv] = 11

\* C9: cdrom_attach never makes more than SCST_DEV_UA_RETRIES capacity-query
\* attempts, and a started cdrom_attach returns.
C9_AttachTerminates ==
  /\ [](Attempts <= SCST_DEV_UA_RETRIES)
  /\ (pc \notin {"idle", "attached"}) ~> (pc \in {"idle", "attached"})

C9_Witness == Returning /\ Attempts = SCST_DEV_UA_RETRIES

\* C10: when the allocation of the Record or of the scratch buffer fails,
\* cdrom_attach returns -ENOMEM, the Record (if it was allocated) has been
\* freed, no capacity query was issued and the handle has no Record.
C10_AllocFailure ==
  (Returning /\ allocs >= 1 /\ (params = NULL \/ buffer = NULL))
    => /\ res = -ENOMEM
       /\ Attempts = 0
       /\ sync_calls = 0
       /\ dh_priv = NULL
       /\ params # NULL => heap[params] = "freed"
       /\ ~double_free

C10_Witness ==
  /\ Returning /\ allocs = 2 /\ params # NULL /\ buffer = NULL
  /\ res = -ENOMEM /\ heap[params] = "freed" /\ dh_priv = NULL

\* C11: a cdrom_detach on a handle that is not attached (a second detach, or
\* a detach after a failed attach) changes nothing: no object is freed, let
\* alone twice, and dh_priv stays NULL.
C11_DetachIdempotent ==
  /\ [][(pc = "idle" /\ detaches' = detaches + 1)
          => (dh_priv = NULL /\ dh_priv' = NULL /\ heap' = heap
              /\ block_shift' = block_shift /\ pc' = "idle")]_vars
  /\ [](~double_free)

\* the device was attached, then detached twice
C11_Witness ==
  /\ pc = "idle" /\ ret = 0 /\ detaches = 2
  /\ dh_priv = NULL /\ ~double_free

\* command c goes through cdrom_parse in this step
ParseStep(c) == cmds[c].st = "free" /\ cmds'[c].st = "parsed"

\* C12: cdrom_parse leaves the Record (and the heap and dh_priv) unchanged,
\* hands the Record's current exponent to the generic parse routine, sets
\* cmd->retries to SCST_PASSTHROUGH_RETRIES and returns SCST_CMD_STATE_DEFAULT.
C12_AnnotatorReadOnly ==
  [][\A c \in Cmds :
       ParseStep(c) =>
         /\ block_shift' = block_shift /\ heap' = heap /\ dh_priv' = dh_priv
         /\ bad_access' = bad_access
         /\ cmds'[c].block_shift = block_shift[dh_priv]
         /\ cmds'[c].retries = SCST_PASSTHROUGH_RETRIES
         /\ cmds'[c].state = SCST_CMD_STATE_DEFAULT]_vars

\* a command annotated with a probed, non-default exponent
C12_Witness ==
  /\ pc = "attached" /\ last_set = <<>>
  /\ \E c \in Cmds :
       /\ cmds[c].st = "parsed"
       /\ cmds[c].block_shift = 9 /\ block_shift[dh_priv] = 9
       /\ cmds[c].retries = SCST_PASSTHROUGH_RETRIES
       /\ cmds[c].state = SCST_CMD_STATE_DEFAULT

\* C13: cdrom_attach calls scst_obtain_device_parameters exactly once on every
\* path on which the exponent was determined (a successful query, a
\* non-transient failure or the exhaustion of the retry budget), never before
\* the probe loop has ended and never on the type-mismatch or
\* allocation-failure paths.
C13_SyncExactlyOnce ==
  /\ pc \in {"alloc_params", "alloc_buffer", "execute", "check", "parse", "sync"}
       => sync_calls = 0
  /\ Returning =>
       sync_calls = (IF path \in {"type_mismatch", "alloc_params", "alloc_buffer"}
                     THEN 0 ELSE 1)

\* C14: in the probe loop an attempt is followed by another only if it
\* returned nonzero and itself produced sense data classified as UNIT
\* ATTENTION; and what is parsed after a successful attempt is what that
\* attempt transferred, never what an earlier attempt left in the buffers.
C14_RetryOnlyOnOwnSense ==
  /\ \A i \in 1 .. (Attempts - 1) : log[i][1] # 0 /\ log[i][2]
  /\ (pc = "execute" /\ Attempts >= 1) => (log[Attempts][1] # 0 /\ log[Attempts][2])
  /\ (pc \in {"sync", "out_free_buf", "out_free_params", "out"} /\ Attempts >= 1 /\ rc = 0)
       => sector_size = SectorSizeOf(produced)

\* a transport error that returned no sense data, right after an attempt that
\* failed with UNIT ATTENTION, ended the loop
C14_Witness ==
  /\ pc = "parse" /\ Attempts = 2
  /\ log[1][1] # 0 /\ log[1][2]
  /\ log[2][1] # 0 /\ ~log[2][2] /\ sense_buffer = ZeroSense

\* C15: with commands issued only after a successful attach and detach run
\* only when no command is in flight, cdrom_get_block_shift and
\* cdrom_set_block_shift never go through a NULL or freed dh_priv, and once
\* the device is detached no command is left to touch the Record.
C15_NoInvalidRecordAccess ==
  /\ ~bad_access
  /\ (pc = "attached" \/ \E c \in Cmds : cmds[c].st # "free")
       => (dh_priv # NULL /\ heap[dh_priv] = "live")
  /\ pc # "attached" => \A c \in Cmds : cmds[c].st = "free"

\* the setter has run, a command annotated by the accessor is in flight
C15_Witness ==
  /\ pc = "attached" /\ ~bad_access
  /\ last_set # <<>> /\ last_set[1].arg = 12
  /\ \E c \in Cmds : cmds[c].st = "parsed" /\ cmds[c].block_shift = 12

\* command c goes through cdrom_done in this step
DoneStep(c) == cmds[c].st = "parsed" /\ cmds'[c].st = "free"
\* what the Adjuster stores for argument v
Normalized(v) == IF v = 0 THEN 11 ELSE v

\* C16: with several commands in flight and their callbacks interleaved, the
\* Record's exponent changes between attach and detach only in a
\* cdrom_set_block_shift step, which stores the normalized argument, and every
\* cdrom_parse reads the exponent the Record holds at that moment: the one
\* attach left, or the normalized argument of the latest Adjuster call.
C16_SingleWriter ==
  /\ [][(pc = "attached" /\ pc' = "attached") =>
          /\ dh_priv' = dh_priv
          /\ block_shift'[dh_priv] # block_shift[dh_priv] =>
               /\ \E c \in Cmds : DoneStep(c)
               /\ last_set' # <<>>
               /\ last_set'[1].old = block_shift[dh_priv]
               /\ block_shift'[dh_priv] = Normalized(last_set'[1].arg)
          /\ last_set' # last_set =>
               /\ \E c \in Cmds : DoneStep(c)
               /\ block_shift'[dh_priv] = Normalized(last_set'[1].arg)
          /\ \A c \in Cmds :
               ParseStep(c) => cmds'[c].block_shift = block_shift[dh_priv]]_vars
  /\ [][(pc = "out" /\ pc' = "attached") =>
          (dh_priv' = dh_priv /\ block_shift' = block_shift /\ last_set' = <<>>)]_vars

\* two commands in flight, one annotated before and one after an Adjuster
\* call that changed the exponent
C16_Witness ==
  /\ pc = "attached" /\ last_set # <<>>
  /\ last_set[1].arg = 0 /\ last_set[1].old = 9
  /\ cmds[1].st = "parsed" /\ cmds[1].block_shift = 9
  /\ cmds[2].st = "parsed" /\ cmds[2].block_shift = 11

\* C17: when the successful capacity query reported a sector size of 0, the
\* Record gets the default exponent 11 and scst_calc_block_shift is not
\* called.
C17_ZeroSectorSize ==
  (rc = 0 /\ Attempts >= 1 /\ produced = Bytes(0, 0, 0, 0))
    => /\ calc_calls = 0
       /\ pc \in {"sync", "out_free_buf", "out_free_params"}
            => (sector_size = 0 /\ block_shift[params] = CDROM_DEF_BLOCK_SHIFT)
       /\ (Returning /\ res = 0)
            => (dh_priv = params /\ block_shift[dh_priv] = CDROM_DEF_BLOCK_SHIFT)

C17_Witness ==
  /\ Returning /\ res = 0 /\ rc = 0 /\ Attempts = 2
  /\ produced = Bytes(0, 0, 0, 0) /\ sector_size = 0 /\ calc_calls = 0
  /\ block_shift[dh_priv] = CDROM_DEF_BLOCK_SHIFT

\* C18: after a successful capacity query the parsed sector size is the
\* big-endian 32-bit quantity b4*2^24 + b5*2^16 + b6*2^8 + b7 of response
\* bytes 4..7, for every value of the bytes, and so never negative.
C18_BigEndianSectorSize ==
  (pc \in {"sync", "out_free_buf", "out_free_params", "out"} /\ Attempts >= 1 /\ rc = 0)
    => /\ sector_size >= 0
       /\ sector_size \div Pow2(24) = produced[4]
       /\ sector_size % Pow2(24) =
            produced[5] * Pow2(16) + produced[6] * Pow2(8) + produced[7]

LiveObjects == {a \in Addr : heap[a] = "live"}

\* C19: when cdrom_attach returns, on whichever path, the scratch buffer, if
\* it was allocated, has been freed exactly once, and the Record, if it was
\* allocated, is attached to the handle exactly when res is 0 and has been
\* freed exactly once exactly when res is not 0; nothing else is live.
C19_ResourcesAccounted ==
  /\ ~double_free
  /\ Returning =>
       /\ buffer # NULL => heap[buffer] = "freed"
       /\ params # NULL =>
            IF res = 0
            THEN heap[params] = "live" /\ dh_priv = params
            ELSE heap[params] = "freed" /\ dh_priv # params
       /\ res = 0 => (params # NULL /\ buffer # NULL)
       /\ LiveObjects = (IF res = 0 THEN {params} ELSE {})
       /\ allocs = (IF params = NULL THEN (IF path = "type_mismatch" THEN 0 ELSE 1) ELSE 2)

\* the retry budget was exhausted: both objects were allocated and freed
C19_Witness ==
  /\ Returning /\ path = "exhausted" /\ res # 0
  /\ params # NULL /\ heap[params] = "freed"
  /\ buffer # NULL /\ heap[buffer] = "freed"
  /\ dh_priv = NULL /\ ~double_free

\* C20: after a cdrom_set_block_shift call the Record's exponent is not 0;
\* so if attach left a nonzero exponent, the exponent stays nonzero, and every
\* exponent cdrom_parse reads is nonzero, for as long as the device is attached.
C20_ExponentNonzero ==
  /\ [](pc = "attached" /\ last_set # <<>> => block_shift[dh_priv] # 0)
  /\ [][(pc = "attached" /\ pc' = "attached" /\ block_shift[dh_priv] # 0) =>
          /\ block_shift'[dh_priv'] # 0
          /\ \A c \in Cmds : ParseStep(c) => cmds'[c].block_shift # 0]_vars

\* attach left the default, the Adjuster was then called with 0 and a
\* command was annotated afterwards
C20_Witness ==
  /\ pc = "attached" /\ last_set # <<>>
  /\ last_set[1].arg = 0 /\ last_set[1].old = 11
  /\ block_shift[dh_priv] = 11
  /\ \A c \in Cmds : cmds[c].st = "parsed" /\ cmds[c].block_shift = 11
====
